---- MODULE Spec2Model ----
(***************************************************************************)
(* Model of app-claude.py: the header/CTA couple parser, the Streamlit     *)
(* session state, the checkbox selection and the image batch loop.         *)
(*                                                                         *)
(* Text is a sequence of tokens.  A token is a string: the marker words    *)
(* ("Header", "CTA" and their case variants), ":", " ", "\n", or a plain   *)
(* word that contains no colon, no whitespace and no marker word.  The     *)
(* substring tests of the code are tests on adjacent tokens.               *)
(***************************************************************************)
EXTENDS Integers, Sequences, FiniteSets, TLC

VARIABLES
    \* ---- parser locals (lines 63-82) ----
    text,               \* completion.choices[0].text being parsed
    lines,              \* the stripped non-empty lines
    pos,                \* number of lines the for loop has consumed
    current_couple,     \* dict with optional keys layer1, layer2
    couples,            \* the list of committed couples
    ppc,                \* parser position: "off", "loop", "done"
    \* ---- environment and widgets ----
    writer_api_key,     \* os.getenv('WRITER_API_KEY')
    photoroom_api_key,  \* os.getenv('PHOTOROOM_API_KEY')
    template_id,        \* sidebar text input
    checked,            \* indices idx whose checkbox couple_{idx} is True
    clicked,            \* the widget whose interaction triggered the run
    \* ---- st.session_state ----
    ss_keys,            \* keys present in st.session_state
    ss_couples,         \* st.session_state['couples']
    ss_selected_couples,\* st.session_state['selected_couples']
    ss_generated_images,\* st.session_state['generated_images']
    \* ---- locals of the script run ----
    completion,         \* outcome of client.completions.create
    selected_indices,   \* indices collected from the checkboxes
    generated_images,   \* the batch's list of images
    i,                  \* number of batch items processed
    pc,                 \* "idle" between runs, "batch" inside the loop
    ui,                 \* messages the run has emitted
    net                 \* remote requests the run has issued

parser_vars == <<text, lines, pos, current_couple, couples, ppc>>
env_vars == <<writer_api_key, photoroom_api_key>>
session_vars == <<ss_keys, ss_couples, ss_selected_couples, ss_generated_images>>
run_vars == <<completion, selected_indices, generated_images, i, pc, ui, net>>
app_vars == <<env_vars, template_id, checked, clicked, session_vars, run_vars>>
vars == <<parser_vars, app_vars>>

----------------------------------------------------------------------------
(* Bounds and program constants *)

\* couples = couples[:10]
MaxCouples == 10
\* longest text, in lines, built freely from LinePool
MaxLines == 3
\* longest well-formed numbered stream, in Header/CTA pairs
MaxPairs == 11
\* most checkboxes checked at once
MaxSelected == 2
\* if len(couples) < 10
RequestedCouples == 10
\* if response.status_code == 200
StatusOk == 200

Min(a, b) == IF a < b THEN a ELSE b

----------------------------------------------------------------------------
(* String helpers, as the Python string methods compute them *)

IsSpace(t) == t \in {" ", "\t"}

\* str.lower() on a token, as far as the marker tests can tell
Lower(t) ==
    CASE t \in {"Header", "HEADER", "header"} -> "header"
      [] t \in {"CTA", "Cta", "cta"} -> "cta"
      [] OTHER -> t    \* a plain word: its lower case is never a marker word

LowerStr(s) == [j \in 1..Len(s) |-> Lower(s[j])]

\* pat in s
Contains(s, pat) ==
    \E j \in 1..(Len(s) - Len(pat) + 1) : SubSeq(s, j, j + Len(pat) - 1) = pat

\* str.find(t) + 1, or 0 when t does not occur
FirstIndex(s, t) ==
    LET I == {j \in 1..Len(s) : s[j] = t}
    IN IF I = {} THEN 0 ELSE CHOOSE j \in I : \A k \in I : j <= k

\* str.strip()
Strip(s) ==
    LET I == {j \in 1..Len(s) : ~IsSpace(s[j])}
    IN IF I = {} THEN <<>>
       ELSE LET lo == CHOOSE j \in I : \A k \in I : j <= k
                hi == CHOOSE j \in I : \A k \in I : j >= k
            IN SubSeq(s, lo, hi)

\* str.split('\n'): the pieces between consecutive newlines
SplitNewline(s) ==
    LET nl == {j \in 1..Len(s) : s[j] = "\n"}
        \* the position of the k-th newline; 0 and Len(s) + 1 fence the ends
        cut(k) == IF k = 0 THEN 0
                  ELSE IF k > Cardinality(nl) THEN Len(s) + 1
                  ELSE CHOOSE j \in nl : Cardinality({m \in nl : m < j}) = k - 1
    IN [k \in 1..(Cardinality(nl) + 1) |-> SubSeq(s, cut(k - 1) + 1, cut(k) - 1)]

\* line.split(':', 1)[-1]
AfterFirstColon(line) ==
    LET k == FirstIndex(line, ":")
    IN IF k = 0 THEN line ELSE SubSeq(line, k + 1, Len(line))

NonEmpty(s) == s # <<>>

\* [line.strip() for line in text.split('\n') if line.strip()]
SplitLines(t) ==
    LET raw == SplitNewline(t)
    IN SelectSeq([k \in 1..Len(raw) |-> Strip(raw[k])], NonEmpty)

----------------------------------------------------------------------------
(* The couple extraction loop *)

EmptyDict == [k \in {} |-> <<>>]

DictSet(d, key, val) ==
    [k \in (DOMAIN d) \cup {key} |-> IF k = key THEN val ELSE d[k]]

\* 'Header:' in line or 'header:' in line.lower()
IsHeaderLine(line) ==
    \/ Contains(line, <<"Header", ":">>)
    \/ Contains(LowerStr(line), <<"header", ":">>)

\* 'CTA:' in line or 'cta:' in line.lower()
IsCtaLine(line) ==
    \/ Contains(line, <<"CTA", ":">>)
    \/ Contains(LowerStr(line), <<"cta", ":">>)

\* line.split(':', 1)[-1], the strip() forgotten
LineTextUnstripped(line) == AfterFirstColon(line)
\* line.split(':', 1)[-1].strip()
LineText(line) == Strip(AfterFirstColon(line))

\* the if-branch of the loop body
HeaderStep(st, line) ==
    [cur |-> DictSet(st.cur, "layer1", LineText(line)), out |-> st.out]

\* line 77 left out: every CTA line commits
CommitsAlways(cur) == TRUE
\* the inner test: if 'layer1' in current_couple
Commits(cur) == "layer1" \in DOMAIN cur

\* line 79 left out: the candidate survives its commit
CtaStepKeepsCandidate(st, line) ==
    LET cur == DictSet(st.cur, "layer2", LineText(line))
    IN IF Commits(cur)
       THEN [cur |-> cur, out |-> Append(st.out, cur)]
       ELSE [cur |-> cur, out |-> st.out]

\* the elif-branch of the loop body
CtaStep(st, line) ==
    LET cur == DictSet(st.cur, "layer2", LineText(line))
    IN IF Commits(cur)
       THEN [cur |-> EmptyDict, out |-> Append(st.out, cur)]
       ELSE [cur |-> cur, out |-> st.out]

\* a line with neither marker that drops the pending candidate
OtherStepClears(st, line) == [cur |-> EmptyDict, out |-> st.out]

\* neither branch of the loop body is taken
OtherStep(st, line) == st

\* one iteration of `for line in lines`
LineStep(st, line) ==
    IF IsHeaderLine(line) THEN HeaderStep(st, line)
    ELSE IF IsCtaLine(line) THEN CtaStep(st, line)
    ELSE OtherStep(st, line)

RECURSIVE RunLines(_, _, _, _)
\* the loop state after lines lo..hi of ls, from the state st before them.
\* The range is halved, and st is looked at before the lines are, so that
\* the evaluation of a long loop stays shallow.
RunLines(st, ls, lo, hi) ==
    IF Len(st.out) < 0 \/ lo > hi THEN st
    ELSE IF lo = hi THEN LineStep(st, ls[lo])
    ELSE LET mid == (lo + hi) \div 2
         IN RunLines(RunLines(st, ls, lo, mid), ls, mid + 1, hi)

\* the couples committed by the whole loop, before truncation
ExtractCouples(ls) ==
    RunLines([cur |-> EmptyDict, out |-> <<>>], ls, 1, Len(ls)).out

\* line 82 left out
TruncateNone(cs) == cs
\* couples[:10]
Truncate(cs) == SubSeq(cs, 1, Min(Len(cs), MaxCouples))

\* lines 63-82 as a function of the completion text
ParseCouples(t) == Truncate(ExtractCouples(SplitLines(t)))

----------------------------------------------------------------------------
(* Completion texts *)

Newline == "\n"

RECURSIVE JoinLines(_)
\* the lines of a text, joined by newlines
JoinLines(ls) ==
    IF ls = <<>> THEN <<>>
    ELSE IF Len(ls) = 1 THEN Head(ls)
    ELSE Head(ls) \o <<Newline>> \o JoinLines(Tail(ls))

Numbers == <<"1.", "2.", "3.", "4.", "5.", "6.", "7.", "8.", "9.", "10.",
             "11.", "12.", "13.", "14.">>
HeaderWords == <<"SHOP", "WINTER", "GIFT", "SAVE", "GEAR", "COOL", "PACK",
                 "TREK", "CASE", "GLOW", "BEAM", "ROAM", "CAMP", "DEAL">>
CtaWords == <<"Browse", "Explore", "Discover", "Shop", "See", "Find", "View",
              "Visit", "Tour", "Grab", "Pick", "Open", "Peek", "Look">>
\* the two words the long session text alternates between
CycleHeaderWords == <<"SHOP", "WINTER">>
CycleCtaWords == <<"Browse", "Explore">>

Pick(words, j) == words[((j - 1) % Len(words)) + 1]

\* the header and CTA texts of the j-th pair of a well-formed stream
HeaderText(hw, j) == <<Pick(hw, j), " ", "NOW">>
CtaText(cw, j) == <<Pick(cw, j), " ", "Today">>

\* "<j>. Header: <text> " and "   CTA: <text>", the format the prompt asks for
HeaderLine(hw, j) ==
    <<Numbers[j], " ", IF j % 2 = 1 THEN "Header" ELSE "HEADER", ":", " ">>
        \o HeaderText(hw, j) \o <<" ">>
CtaLine(cw, j) ==
    <<" ", " ", " ", IF j % 3 = 0 THEN "cta" ELSE "CTA", ":", " ">> \o CtaText(cw, j)

RECURSIVE PairLines(_, _, _)
PairLines(hw, cw, n) ==
    IF n = 0 THEN <<>>
    ELSE PairLines(hw, cw, n - 1) \o <<HeaderLine(hw, n), CtaLine(cw, n)>>

\* a well-formed alternating stream of n Header:/CTA: pairs
WellFormedText(hw, cw, n) == JoinLines(PairLines(hw, cw, n))

\* the couples such a stream spells out, all n of them
WellFormedCouples(hw, cw, n) ==
    [j \in 1..n |-> [layer1 |-> HeaderText(hw, j), layer2 |-> CtaText(cw, j)]]

\* lines a completion may hold besides the well-formed ones
LinePool ==
    { <<"1.", " ", "Header", ":", " ", "SHOP", " ", "NOW">>,
      <<" ", " ", "CTA", ":", " ", "Browse">>,
      <<"header", ":", "sale", " ">>,
      <<"cta", ":", " ", "go">>,
      <<"Note", ":", " ", "enjoy">>,
      <<" ">>,
      <<"Option", " ", "1", ":", " ", "Header", ":", " ", "BIG">>,
      <<"CTA", ":", " ", "see", " ", "header", ":", " ", "x">> }

FreeTexts ==
    UNION { {JoinLines(f) : f \in [1..n -> LinePool]} : n \in 0..MaxLines }

\* the texts the parser is run on
ParseInputs ==
    FreeTexts \cup {WellFormedText(HeaderWords, CtaWords, n) : n \in 0..MaxPairs}

----------------------------------------------------------------------------
(* The parser, one loop iteration per step *)

ParserOff ==
    /\ text = <<>>
    /\ lines = <<>>
    /\ pos = 0
    /\ current_couple = EmptyDict
    /\ couples = <<>>
    /\ ppc = "off"

\* lines 63-68
ParseInit ==
    /\ text \in ParseInputs
    /\ lines = SplitLines(text)
    /\ pos = 0
    /\ current_couple = EmptyDict
    /\ couples = <<>>
    /\ ppc = "loop"

\* the loop state before the next line, and the move to the state after it
LoopState == [cur |-> current_couple, out |-> couples]
ParseLine(st) ==
    /\ current_couple' = st.cur
    /\ couples' = st.out
    /\ pos' = pos + 1
    /\ UNCHANGED <<text, lines, ppc>>

\* lines 71-73
ParseHeaderLine ==
    /\ ppc = "loop" /\ pos < Len(lines)
    /\ IsHeaderLine(lines[pos + 1])
    /\ ParseLine(HeaderStep(LoopState, lines[pos + 1]))
    /\ UNCHANGED app_vars

\* lines 74-79
ParseCtaLine ==
    /\ ppc = "loop" /\ pos < Len(lines)
    /\ ~IsHeaderLine(lines[pos + 1])
    /\ IsCtaLine(lines[pos + 1])
    /\ ParseLine(CtaStep(LoopState, lines[pos + 1]))
    /\ UNCHANGED app_vars

\* a line with neither marker
ParseOtherLine ==
    /\ ppc = "loop" /\ pos < Len(lines)
    /\ ~IsHeaderLine(lines[pos + 1])
    /\ ~IsCtaLine(lines[pos + 1])
    /\ ParseLine(OtherStep(LoopState, lines[pos + 1]))
    /\ UNCHANGED app_vars

\* line 82
ParseTruncate ==
    /\ ppc = "loop" /\ pos = Len(lines)
    /\ couples' = Truncate(couples)
    /\ ppc' = "done"
    /\ UNCHANGED <<text, lines, pos, current_couple>>
    /\ UNCHANGED app_vars

ParseNext ==
    \/ ParseHeaderLine
    \/ ParseCtaLine
    \/ ParseOtherLine
    \/ ParseTruncate

----------------------------------------------------------------------------
(* The script run: values and messages *)

\* `not key`: None and the empty string are both falsy
Falsy(v) == v \in {"None", ""}

KeyValues == {"None", "", "key"}
DefaultTemplateId == "a8eed145-f813-4d60-b227-8015dac1889b"
TemplateIds == {"", DefaultTemplateId}

Msg(kind, what, n, d) == [kind |-> kind, what |-> what, n |-> n, d |-> d]

NoCompletion == [kind |-> "none", text |-> <<>>]
CompletionRaises == [kind |-> "raise", text |-> <<>>]
CompletionText(t) == [kind |-> "text", text |-> t]

\* more pairs than are kept
LongSessionText == WellFormedText(CycleHeaderWords, CycleCtaWords, MaxPairs)

\* as many pairs as were asked for
FullSessionText ==
    WellFormedText(CycleHeaderWords, CycleCtaWords, RequestedCouples)

\* the texts the completion service answers with in a session
SessionTexts ==
    { <<>>,
      <<"Note", ":", " ", "enjoy">>,
      JoinLines(<< <<"CTA", ":", " ", "go">>,
                   <<"Header", ":", " ", "GIFT">>,
                   <<"CTA", ":", " ", "See">> >>),
      WellFormedText(CycleHeaderWords, CycleCtaWords, 2),
      FullSessionText,
      LongSessionText }

\* each of these texts with the couples lines 63-82 make of it
ParsedTexts == {[text |-> t, couples |-> ParseCouples(t)] : t \in SessionTexts}

\* one remote call of the run: what was sent and what came back
CompletionCall(raises) ==
    [svc |-> "completion", templateId |-> "", layer1 |-> <<>>, layer2 |-> <<>>,
     resp |-> [raises |-> raises, status_code |-> 0, content |-> "text"]]
\* lines 151-162
CompositorCall(tid, couple, resp) ==
    [svc |-> "compositor", templateId |-> tid,
     layer1 |-> couple.layer1, layer2 |-> couple.layer2, resp |-> resp]

\* what requests.post can do: raise, or answer with a status and a body
Responses ==
    { [raises |-> TRUE, status_code |-> 0, content |-> "none"],
      [raises |-> FALSE, status_code |-> 200, content |-> "png"],
      [raises |-> FALSE, status_code |-> 200, content |-> "garbage"],
      [raises |-> FALSE, status_code |-> 500, content |-> "error body"] }

\* whether Image.open(BytesIO(content)) returns rather than raises
Decodes(content) == content = "png"

----------------------------------------------------------------------------
(* st.session_state and the display section *)

Session ==
    [keys |-> ss_keys, couples |-> ss_couples,
     selected |-> ss_selected_couples, images |-> ss_generated_images]

SetSession(s) ==
    /\ ss_keys' = s.keys
    /\ ss_couples' = s.couples
    /\ ss_selected_couples' = s.selected
    /\ ss_generated_images' = s.images

\* line 88 alone: line 89 left out
StoreCouplesKeepSelection(s, cs) ==
    [s EXCEPT !.keys = @ \cup {"couples"}, !.couples = cs]

\* lines 88-89
StoreCouples(s, cs) ==
    [s EXCEPT !.keys = @ \cup {"couples", "selected_couples"},
              !.couples = cs,
              !.selected = <<>>]

\* line 97: 'couples' in st.session_state and st.session_state['couples']
Shown(s) == "couples" \in s.keys /\ s.couples # <<>>

RECURSIVE Ascending(_)
\* the members of a set of numbers, smallest first
Ascending(S) ==
    IF S = {} THEN <<>>
    ELSE LET m == CHOOSE x \in S : \A y \in S : x <= y
         IN <<m>> \o Ascending(S \ {m})

\* lines 102-111: the checked indices, in enumeration order
SelectedIndices(chk, cs) == Ascending({idx \in chk : idx < Len(cs)})

\* line 123
StoreSelected(s, sel) ==
    [s EXCEPT !.keys = @ \cup {"selected_couples"}, !.selected = sel]

\* lines 97-123, on the session the generate handler left
Display(s, chk) ==
    IF Shown(s) THEN StoreSelected(s, SelectedIndices(chk, s.couples)) ELSE s

\* a checkbox that a run does not render loses its state
Rendered(s, chk) ==
    IF Shown(s) THEN {idx \in chk : idx < Len(s.couples)} ELSE {}

\* the part of every run after the generate handler, image handler aside
DisplayRun(s, chk) ==
    /\ SetSession(Display(s, chk))
    /\ checked' = Rendered(s, chk)
    /\ selected_indices' =
           IF Shown(s) THEN SelectedIndices(chk, s.couples) ELSE <<>>

----------------------------------------------------------------------------
(* The generate handler, lines 36-94 *)

\* line 37 left out: the key is taken to be there
WriterKeyAssumed == FALSE
\* line 37
WriterKeyMissing == Falsy(writer_api_key)

\* the warning test with <= in place of <
GenerateMessagesWarnsAtTen(cs) ==
    (IF Len(cs) <= RequestedCouples
     THEN <<Msg("warning", "only_generated", Len(cs), 0)>> ELSE <<>>)
        \o <<Msg("success", "generated", Len(cs), 0)>>

\* lines 84-85 and 91
GenerateMessages(cs) ==
    (IF Len(cs) < RequestedCouples
     THEN <<Msg("warning", "only_generated", Len(cs), 0)>> ELSE <<>>)
        \o <<Msg("success", "generated", Len(cs), 0)>>

\* a run that is not inside the batch loop ends where it began
RunEnds ==
    /\ generated_images' = <<>>
    /\ i' = 0
    /\ pc' = "idle"

\* lines 37-38, then the display section
GenerateNoKey ==
    /\ pc = "idle"
    /\ WriterKeyMissing
    /\ clicked' = "generate"
    /\ completion' = NoCompletion
    /\ ui' = <<Msg("error", "no_writer_key", 0, 0)>>
    /\ net' = <<>>
    /\ DisplayRun(Session, checked)
    /\ RunEnds
    /\ UNCHANGED <<parser_vars, env_vars, template_id>>

\* lines 41-63 raise, line 94 reports, then the display section
GenerateRaises ==
    /\ pc = "idle"
    /\ ~WriterKeyMissing
    /\ clicked' = "generate"
    /\ completion' = CompletionRaises
    /\ ui' = <<Msg("error", "generating_variants", 0, 0)>>
    /\ net' = <<CompletionCall(TRUE)>>
    /\ DisplayRun(Session, checked)
    /\ RunEnds
    /\ UNCHANGED <<parser_vars, env_vars, template_id>>

\* lines 41-91 with a text returned, then the display section
GenerateStores ==
    /\ pc = "idle"
    /\ ~WriterKeyMissing
    /\ \E parsed \in ParsedTexts :
        /\ completion' = CompletionText(parsed.text)
        /\ ui' = GenerateMessages(parsed.couples)
        /\ DisplayRun(StoreCouples(Session, parsed.couples), checked)
    /\ clicked' = "generate"
    /\ net' = <<CompletionCall(FALSE)>>
    /\ RunEnds
    /\ UNCHANGED <<parser_vars, env_vars, template_id>>

----------------------------------------------------------------------------
(* Widget interactions that rerun the script with no button pressed *)

\* a click that can only check the box
ToggleChecksOnly(chk, idx) == chk \cup {idx}

\* the checkbox couple_{idx} flips its value, line 109
Toggle(chk, idx) ==
    IF idx \in chk THEN chk \ {idx} ELSE chk \cup {idx}

\* the user clicks checkbox couple_{idx}, line 109
ToggleCheckbox ==
    /\ pc = "idle"
    /\ Shown(Session)
    /\ \E idx \in 0..(Len(ss_couples) - 1) :
        /\ idx \in checked \/ Cardinality(checked) < MaxSelected
        /\ DisplayRun(Session, Toggle(checked, idx))
    /\ clicked' = "checkbox"
    /\ completion' = NoCompletion
    /\ ui' = <<>>
    /\ net' = <<>>
    /\ RunEnds
    /\ UNCHANGED <<parser_vars, env_vars, template_id>>

\* the user edits the sidebar text input, line 19
EditTemplateId ==
    /\ pc = "idle"
    /\ \E t \in TemplateIds \ {template_id} : template_id' = t
    /\ clicked' = "template_id"
    /\ completion' = NoCompletion
    /\ ui' = <<>>
    /\ net' = <<>>
    /\ DisplayRun(Session, checked)
    /\ RunEnds
    /\ UNCHANGED <<parser_vars, env_vars>>

----------------------------------------------------------------------------
(* The image handler, lines 127-186 *)

\* line 128
PhotoroomKeyMissing == Falsy(photoroom_api_key)
\* line 130 left out: the template id is taken to be there
TemplateIdAssumed == FALSE
\* line 130
TemplateIdMissing == template_id = ""
\* line 132 left out: an empty selection is let through
NoneSelectedUnchecked(sel) == FALSE
\* line 132
NoneSelected(sel) == Len(sel) = 0

\* a press of the image button that a check of lines 128-133 turns away
ImagesRejected(msg) ==
    /\ clicked' = "images"
    /\ completion' = NoCompletion
    /\ ui' = <<msg>>
    /\ net' = <<>>
    /\ DisplayRun(Session, checked)
    /\ RunEnds
    /\ UNCHANGED <<parser_vars, env_vars, template_id>>

\* lines 128-129
ImagesNoKey ==
    /\ pc = "idle"
    /\ Shown(Session)
    /\ PhotoroomKeyMissing
    /\ ImagesRejected(Msg("error", "no_photoroom_key", 0, 0))

\* lines 130-131
ImagesNoTemplate ==
    /\ pc = "idle"
    /\ Shown(Session)
    /\ ~PhotoroomKeyMissing
    /\ TemplateIdMissing
    /\ ImagesRejected(Msg("error", "no_template_id", 0, 0))

\* lines 132-133
ImagesNoneSelected ==
    /\ pc = "idle"
    /\ Shown(Session)
    /\ ~PhotoroomKeyMissing
    /\ ~TemplateIdMissing
    /\ NoneSelected(SelectedIndices(checked, ss_couples))
    /\ ImagesRejected(Msg("warning", "select_at_least_one", 0, 0))

\* lines 135-140: the batch is accepted and the loop is entered
ImagesStart ==
    /\ pc = "idle"
    /\ Shown(Session)
    /\ ~PhotoroomKeyMissing
    /\ ~TemplateIdMissing
    /\ ~NoneSelected(SelectedIndices(checked, ss_couples))
    /\ clicked' = "images"
    /\ completion' = NoCompletion
    /\ ui' = <<Msg("header", "generated_images", 0, 0),
               Msg("progress", "create", 0, 1)>>
    /\ net' = <<>>
    /\ DisplayRun(Session, checked)
    /\ generated_images' = <<>>
    /\ i' = 0
    /\ pc' = "batch"
    /\ UNCHANGED <<parser_vars, env_vars, template_id>>

\* lines 167-172
ImageEntry(couple, content) ==
    [layer1 |-> couple.layer1, layer2 |-> couple.layer2,
     image |-> <<"Image", content>>, bytes |-> content]

\* line 178, were the handler to record an empty entry for the failed item
ItemExceptionPlaceholder(images, idx) ==
    [images |-> Append(images, [layer1 |-> <<>>, layer2 |-> <<>>,
                                image |-> <<>>, bytes |-> "none"]),
     raised |-> TRUE,
     msgs |-> <<Msg("error", "item_exception", idx + 1, 0)>>]

\* line 178
ItemException(images, idx) ==
    [images |-> images, raised |-> TRUE,
     msgs |-> <<Msg("error", "item_exception", idx + 1, 0)>>]

\* lines 174-175
ItemBadStatus(images, idx, resp) ==
    [images |-> images, raised |-> FALSE,
     msgs |-> <<Msg("error", "item_failed", idx + 1, resp.status_code),
                Msg("text", "response_text", idx + 1, resp.status_code)>>]

\* lines 166-172
ItemDecoded(images, couple, resp) ==
    [images |-> Append(images, ImageEntry(couple, resp.content)),
     raised |-> FALSE, msgs |-> <<>>]

\* lines 149-178: the try block on one response
ItemResult(images, couple, idx, resp) ==
    IF resp.raises THEN ItemException(images, idx)
    ELSE IF resp.status_code = StatusOk
         THEN IF Decodes(resp.content)
              THEN ItemDecoded(images, couple, resp)
              ELSE ItemException(images, idx)
         ELSE ItemBadStatus(images, idx, resp)

\* line 177 left out: an exception in the try block ends the run
Uncaught(resp) == FALSE
\* line 177: `except Exception` catches whatever the try block raises
Caught(resp) == TRUE

\* the bar is moved before the item is counted
ProgressUpdateEarly(n, K) == Msg("progress", "update", n, K)

\* line 180: progress_bar.progress((i + 1) / len(selected_indices)),
\* the fraction kept as numerator and denominator
ProgressUpdate(n, K) == Msg("progress", "update", n + 1, K)

\* lines 142-180: one iteration of the batch loop
BatchItem ==
    /\ pc = "batch"
    /\ i < Len(selected_indices)
    /\ \E resp \in Responses :
        LET idx == selected_indices[i + 1]
            couple == ss_couples[idx + 1]
            r == ItemResult(generated_images, couple, idx, resp)
            K == Len(selected_indices)
        IN /\ net' = Append(net, CompositorCall(template_id, couple, resp))
           /\ IF r.raised /\ ~Caught(resp)
              THEN \* the run dies with the exception
                   /\ generated_images' = generated_images
                   /\ ui' = ui \o <<Msg("status", "generating", i + 1, K),
                                    Msg("traceback", "uncaught", idx + 1, 0)>>
                   /\ pc' = "idle"
              ELSE /\ generated_images' = r.images
                   /\ ui' = ui \o <<Msg("status", "generating", i + 1, K)>>
                               \o r.msgs
                               \o <<ProgressUpdate(i, K)>>
                   /\ pc' = "batch"
    /\ i' = i + 1
    /\ UNCHANGED <<parser_vars, env_vars, template_id, checked, clicked,
                   session_vars, completion, selected_indices>>

\* the run's images added to the stored list instead of replacing it
StoreImagesExtends(s, images) ==
    [s EXCEPT !.keys = @ \cup {"generated_images"},
              !.images = @ \o images]

\* line 186
StoreImages(s, images) ==
    [s EXCEPT !.keys = @ \cup {"generated_images"}, !.images = images]

\* lines 182-186: the loop is over
BatchComplete ==
    /\ pc = "batch"
    /\ i = Len(selected_indices)
    /\ ui' = ui \o <<Msg("status", "complete", 0, 0),
                     Msg("progress", "empty", 0, 0)>>
    /\ SetSession(StoreImages(Session, generated_images))
    /\ pc' = "idle"
    /\ UNCHANGED <<parser_vars, env_vars, template_id, checked, clicked,
                   completion, selected_indices, generated_images, i, net>>

----------------------------------------------------------------------------
(* Specifications *)

\* the state of a fresh session, lines 13-19
AppInit ==
    /\ writer_api_key \in KeyValues
    /\ photoroom_api_key \in KeyValues
    /\ template_id = DefaultTemplateId
    /\ checked = {}
    /\ clicked = "none"
    /\ ss_keys = {}
    /\ ss_couples = <<>>
    /\ ss_selected_couples = <<>>
    /\ ss_generated_images = <<>>
    /\ completion = NoCompletion
    /\ selected_indices = <<>>
    /\ generated_images = <<>>
    /\ i = 0
    /\ pc = "idle"
    /\ ui = <<>>
    /\ net = <<>>

\* the application is not running while the parser is studied on its own
AppOff ==
    /\ writer_api_key = "key"
    /\ photoroom_api_key = "key"
    /\ template_id = DefaultTemplateId
    /\ checked = {}
    /\ clicked = "none"
    /\ ss_keys = {}
    /\ ss_couples = <<>>
    /\ ss_selected_couples = <<>>
    /\ ss_generated_images = <<>>
    /\ completion = NoCompletion
    /\ selected_indices = <<>>
    /\ generated_images = <<>>
    /\ i = 0
    /\ pc = "off"
    /\ ui = <<>>
    /\ net = <<>>

Init == ParserOff /\ AppInit

Next ==
    \/ GenerateNoKey
    \/ GenerateRaises
    \/ GenerateStores
    \/ ToggleCheckbox
    \/ EditTemplateId
    \/ ImagesNoKey
    \/ ImagesNoTemplate
    \/ ImagesNoneSelected
    \/ ImagesStart
    \/ BatchItem
    \/ BatchComplete

\* the session: script runs triggered by the user's interactions
Spec == Init /\ [][Next]_vars

\* the parser alone, on every input text
ParseSpecInit == ParseInit /\ AppOff
ParseSpec == ParseSpecInit /\ [][ParseNext]_vars

----------------------------------------------------------------------------
(* Properties of the image batch *)

\* the run in progress or just over entered the batch loop (line 135)
BatchRan == clicked = "images" /\ ui # <<>> /\ ui[1].kind = "header"

\* the item's response is a failure: an exception, a non-200 status, or
\* bytes that do not decode
Failed(resp) ==
    resp.raises \/ resp.status_code # StatusOk \/ ~Decodes(resp.content)

IsItemError(m) ==
    m.kind = "error" /\ m.what \in {"item_failed", "item_exception"}

\* the couple the j-th item of the batch renders
ItemCouple(j) == ss_couples[selected_indices[j] + 1]

\* C1: a batch over K selected variants of which F fail ends with exactly
\* K-F stored images and F reported failures; the images are those of the
\* items that succeeded, in selection order, one per index, and a failed
\* item leaves no entry.
C1_BatchAccounting ==
    (BatchRan /\ pc = "idle") =>
        LET K == Len(selected_indices)
            errs == SelectSeq(ui, IsItemError)
            okAt == {j \in 1..K : ~Failed(net[j].resp)}
            F == K - Cardinality(okAt)
            order == Ascending(okAt)
        IN /\ Len(net) = K
           /\ "generated_images" \in ss_keys
           /\ Len(ss_generated_images) = K - F
           /\ Len(errs) = F
           /\ Len(ss_generated_images) + Len(errs) = K
           /\ {errs[j].n - 1 : j \in 1..Len(errs)}
                  = {selected_indices[j] : j \in (1..K) \ okAt}
           /\ \A r \in 1..Len(order) :
                  /\ ss_generated_images[r].layer1 = ItemCouple(order[r]).layer1
                  /\ ss_generated_images[r].layer2 = ItemCouple(order[r]).layer2
                  /\ ss_generated_images[r].bytes = net[order[r]].resp.content

\* a batch of two whose first item failed and whose second succeeded
C1_Witness ==
    /\ BatchRan /\ pc = "idle"
    /\ Len(selected_indices) = 2
    /\ Len(net) = 2
    /\ Failed(net[1].resp) /\ ~Failed(net[2].resp)
    /\ Len(ss_generated_images) = 1
    /\ ss_generated_images[1].layer1 = ItemCouple(2).layer1

\* C2: a failed item never ends the batch: every selected variant is
\* requested exactly once, in selection order, whatever the earlier items
\* did, the loop can always go on, and the run ends only after the
\* completion step.
C2_FailureIsolation ==
    BatchRan =>
        LET K == Len(selected_indices)
        IN /\ i <= K
           /\ Len(net) = i
           /\ \A j \in 1..i :
                  /\ net[j].svc = "compositor"
                  /\ net[j].templateId = template_id
                  /\ net[j].layer1 = ItemCouple(j).layer1
                  /\ net[j].layer2 = ItemCouple(j).layer2
           /\ pc = "batch" => ENABLED (BatchItem \/ BatchComplete)
           /\ pc = "idle" =>
                  /\ i = K
                  /\ Len(ui) >= 2
                  /\ ui[Len(ui) - 1] = Msg("status", "complete", 0, 0)

\* a finished batch of two whose first request raised
C2_Witness ==
    /\ BatchRan /\ pc = "idle"
    /\ Len(selected_indices) = 2
    /\ Len(net) = 2
    /\ net[1].resp.raises
    /\ ui[Len(ui) - 1] = Msg("status", "complete", 0, 0)

\* C3: a press of the image button with nothing selected is turned away
\* before any request: the loop is not entered, nothing is sent, and the
\* stored image list is not written.
C3_EmptySelectionRejected ==
    [][(pc = "idle" /\ clicked' = "images" /\ selected_indices' = <<>>) =>
           /\ pc' = "idle"
           /\ net' = <<>>
           /\ ss_generated_images' = ss_generated_images
           /\ ("generated_images" \in ss_keys') = ("generated_images" \in ss_keys)
           /\ \A j \in 1..Len(ui') : ui'[j].kind \in {"error", "warning"}
           /\ (~PhotoroomKeyMissing /\ ~TemplateIdMissing) =>
                  ui' = <<Msg("warning", "select_at_least_one", 0, 0)>>]_vars

\* the warning was given while an earlier batch's images stayed stored
C3_Witness ==
    /\ clicked = "images"
    /\ selected_indices = <<>>
    /\ ui = <<Msg("warning", "select_at_least_one", 0, 0)>>
    /\ net = <<>>
    /\ ss_generated_images # <<>>

----------------------------------------------------------------------------
(* Properties of the parser *)

\* C4: a CTA: line met while the candidate holds no header commits
\* nothing; a couple is committed only at a CTA: line whose candidate
\* already holds a header, and the couple takes its cta from that very
\* line, so the text of an earlier CTA: line never reaches a couple.
C4_OrphanCtaDiscarded ==
    [][(ppc = "loop" /\ pos' = pos + 1) =>
           LET line == lines[pos + 1]
           IN /\ (IsCtaLine(line) /\ "layer1" \notin DOMAIN current_couple)
                     => couples' = couples
              /\ couples' # couples =>
                     /\ IsCtaLine(line)
                     /\ "layer1" \in DOMAIN current_couple
                     /\ couples' = Append(couples,
                                          [layer1 |-> current_couple.layer1,
                                           layer2 |-> LineText(line)])]_vars

\* a CTA: line came first, a Header:/CTA: pair followed, and the one
\* couple does not carry the first line's text
C4_Witness ==
    /\ ppc = "done"
    /\ Len(lines) = 3
    /\ IsCtaLine(lines[1]) /\ ~IsHeaderLine(lines[1])
    /\ Len(couples) = 1
    /\ couples[1].layer2 # LineText(lines[1])
    /\ couples[1].layer2 = LineText(lines[3])

\* the well-formed streams of 0..MaxPairs pairs
WellFormedCases ==
    {[n |-> n, text |-> WellFormedText(HeaderWords, CtaWords, n)] :
        n \in 0..MaxPairs}

\* C5: a well-formed alternating stream of N Header:/CTA: pairs parses to
\* exactly min(N, 10) couples, in input order, the i-th holding the
\* trimmed texts of the i-th Header: line and the i-th CTA: line.
C5_WellFormedStream ==
    \A c \in WellFormedCases :
        (ppc = "done" /\ text = c.text) =>
            couples = WellFormedCouples(HeaderWords, CtaWords,
                                        Min(c.n, MaxCouples))

\* the longest stream was parsed and cut to ten couples
C5_Witness ==
    /\ ppc = "done"
    /\ text = WellFormedText(HeaderWords, CtaWords, MaxPairs)
    /\ Len(couples) = MaxCouples
    /\ couples[2].layer1 = <<"WINTER", " ", "NOW">>
    /\ couples[2].layer2 = <<"Explore", " ", "Today">>

----------------------------------------------------------------------------
(* Properties of the generate handler *)

\* the session texts with every couple their lines commit, uncut
CommittedTexts ==
    {[text |-> t, committed |-> ExtractCouples(SplitLines(t))] :
        t \in SessionTexts}

HasSuccess(msgs) == \E j \in 1..Len(msgs) : msgs[j].kind = "success"

\* the run just over was a generate action that stored a variant sequence
GenerateSucceeded == clicked = "generate" /\ HasSuccess(ui)

\* C6: the stored variant sequence never has more than 10 entries, and a
\* text that commits more than 10 couples leaves the first 10, in input
\* order.
C6_AtMostTen ==
    /\ Len(ss_couples) <= 10
    /\ (clicked = "generate" /\ completion.kind = "text") =>
           /\ \A c \in CommittedTexts :
                  c.text = completion.text =>
                      /\ Len(ss_couples) = Min(Len(c.committed), 10)
                      /\ \A j \in 1..Len(ss_couples) :
                             ss_couples[j] = c.committed[j]
           /\ completion.text = LongSessionText =>
                  ss_couples =
                      WellFormedCouples(CycleHeaderWords, CycleCtaWords, 10)

\* a text of more than ten pairs was stored as ten couples
C6_Witness ==
    /\ clicked = "generate"
    /\ completion.text = LongSessionText
    /\ Len(ss_couples) = 10
    /\ \E c \in CommittedTexts :
           c.text = completion.text /\ Len(c.committed) > 10

\* C7: right after a generate action stores a new variant sequence, the
\* selection the next image action would use is empty.
C7_SelectionReset ==
    GenerateSucceeded =>
        /\ SelectedIndices(checked, ss_couples) = <<>>
        /\ ss_selected_couples = <<>>

\* C8: right after a generate action stores a new variant sequence, the
\* stored image list is empty or absent.
C8_ImagesCleared ==
    GenerateSucceeded =>
        \/ "generated_images" \notin ss_keys
        \/ ss_generated_images = <<>>

\* the completion call raised, or its text is empty or holds no couple
GenerationError(c) ==
    \/ c.kind = "raise"
    \/ /\ c.kind = "text"
       /\ \E parsed \in ParsedTexts :
              parsed.text = c.text /\ parsed.couples = <<>>

\* C9: on a GenerationError the generate action reports one error message
\* and no success, and leaves the stored variant sequence as it was.
C9_GenerationErrorLeavesUnset ==
    [][(pc = "idle" /\ clicked' = "generate" /\ GenerationError(completion')) =>
           /\ ss_couples' = ss_couples
           /\ ("couples" \in ss_keys') = ("couples" \in ss_keys)
           /\ ~HasSuccess(ui')
           /\ ui' = <<Msg("error", "generating_variants", 0, 0)>>]_vars

\* C10: a missing credential or template id blocks the action: without a
\* completion key the generate action sends nothing and changes no session
\* state; without a compositor key or template id the image action sends
\* nothing and does not write the stored image list.
C10_ConfigurationBlocks ==
    [][/\ (pc = "idle" /\ clicked' = "generate" /\ Falsy(writer_api_key)) =>
              /\ net' = <<>>
              /\ UNCHANGED session_vars
              /\ ui' = <<Msg("error", "no_writer_key", 0, 0)>>
       /\ (pc = "idle" /\ clicked' = "images"
              /\ (Falsy(photoroom_api_key) \/ template_id' = "")) =>
              /\ net' = <<>>
              /\ pc' = "idle"
              /\ ss_generated_images' = ss_generated_images
              /\ ("generated_images" \in ss_keys')
                     = ("generated_images" \in ss_keys)
              /\ Len(ui') = 1 /\ ui'[1].kind = "error"]_vars

\* the image button was pressed with variants selected and the template
\* id cleared, and an earlier batch's images stayed stored
C10_Witness ==
    /\ clicked = "images"
    /\ template_id = ""
    /\ selected_indices # <<>>
    /\ ui = <<Msg("error", "no_template_id", 0, 0)>>
    /\ net = <<>>
    /\ ss_generated_images # <<>>

----------------------------------------------------------------------------
(* Properties of the selection *)

\* the indices a sequence holds
Indices(sel) == {sel[j] : j \in 1..Len(sel)}

\* the index range of the stored variant sequence
IndexRange == 0..(Len(ss_couples) - 1)

\* C11: the selected indices always lie in the index range of the stored
\* variant sequence, so the batch loop only looks up positions that exist,
\* whatever generate, checkbox and image actions came before.
C11_SelectionInRange ==
    /\ Indices(selected_indices) \subseteq IndexRange
    /\ Indices(ss_selected_couples) \subseteq IndexRange
    /\ checked \subseteq IndexRange
    /\ pc = "batch" =>
           \A j \in 1..Len(selected_indices) :
               selected_indices[j] + 1 \in DOMAIN ss_couples

\* the batch loop runs over the only variant of a one-couple sequence
\* while two images of an earlier, longer sequence are still stored
C11_Witness ==
    /\ pc = "batch"
    /\ Len(ss_couples) = 1
    /\ selected_indices = <<0>>
    /\ Len(ss_generated_images) = 2

\* a run in which the checkbox of index idx was clicked
Toggled(idx) ==
    /\ pc = "idle" /\ pc' = "idle"
    /\ clicked' = "checkbox"
    /\ checked' = Toggle(checked, idx)

\* a run in which generation stored a new variant sequence, and so reset
\* the selection (line 89)
ResetRun ==
    /\ pc = "idle" /\ pc' = "idle"
    /\ clicked' = "generate"
    /\ completion'.kind = "text"

\* C12: clicking the checkbox of an index gives a selection from which a
\* second click on the same index gives back the selection before the
\* first, for every index and every starting selection; and the run that
\* resets the selection leaves the empty selection.
C12_ToggleTwiceAndReset ==
    [][/\ \A idx \in IndexRange :
             Toggled(idx) =>
                 /\ Toggle(checked', idx) = checked
                 /\ SelectedIndices(Toggle(checked', idx), ss_couples')
                        = selected_indices
       /\ ResetRun =>
              /\ checked' = {}
              /\ selected_indices' = <<>>
              /\ ss_selected_couples' = <<>>]_vars

----------------------------------------------------------------------------
(* The stored image list *)

\* the images of the run's items that succeeded, in selection order
RunImages ==
    LET okAt == {j \in 1..Len(net) : ~Failed(net[j].resp)}
        order == Ascending(okAt)
    IN [r \in 1..Len(order) |->
            ImageEntry(ItemCouple(order[r]), net[order[r]].resp.content)]

\* the step that ends an accepted batch run
BatchEnds == pc = "batch" /\ pc' = "idle"

\* a press of the image button that a precondition check turned away
BatchRejected == pc = "idle" /\ clicked' = "images" /\ pc' = "idle"

\* C13: the end of an accepted batch run replaces the stored image list by
\* exactly the run's successful images, whatever was stored before (by the
\* empty list when every item failed); a rejected attempt leaves the stored
\* list as it was.
C13_BatchReplaces ==
    [][/\ BatchEnds =>
              /\ ss_generated_images' = RunImages
              /\ "generated_images" \in ss_keys'
       /\ BatchRejected =>
              /\ ss_generated_images' = ss_generated_images
              /\ ("generated_images" \in ss_keys')
                     = ("generated_images" \in ss_keys)]_vars

\* a finished batch of two items that both failed: nothing is stored
C13_Witness ==
    /\ BatchRan /\ pc = "idle"
    /\ Len(net) = 2
    /\ Failed(net[1].resp) /\ Failed(net[2].resp)
    /\ "generated_images" \in ss_keys
    /\ ss_generated_images = <<>>

----------------------------------------------------------------------------
(* Properties of the couple loop *)

\* a line the elif-branch handles: a CTA marker and no Header marker
IsCommitLine(line) == ~IsHeaderLine(line) /\ IsCtaLine(line)

\* the lines read so far that satisfy Test
HeaderLinesRead == {k \in 1..pos : IsHeaderLine(lines[k])}
CtaLinesRead == {k \in 1..pos : IsCtaLine(lines[k])}

\* the loop step that commits a couple
CommitStep == ppc = "loop" /\ Len(couples') = Len(couples) + 1

\* C14: a commit clears the candidate.  So the couples committed are never
\* more than the Header: lines read nor than the CTA: lines read, two CTA:
\* lines with no Header: line between them commit at most one couple, and
\* the header of a committed couple is the text of a Header: line read
\* after the previous commit.
C14_CommitClearsCandidate ==
    /\ [](ppc \in {"loop", "done"} =>
              /\ Len(couples) <= Cardinality(HeaderLinesRead)
              /\ Len(couples) <= Cardinality(CtaLinesRead))
    /\ [][CommitStep =>
              /\ current_couple' = EmptyDict
              /\ IsCommitLine(lines[pos'])
              /\ couples'[Len(couples')].layer2 = LineText(lines[pos'])
              /\ \E h \in HeaderLinesRead :
                     /\ couples'[Len(couples')].layer1 = LineText(lines[h])
                     /\ \A k \in (h + 1)..pos : ~IsCommitLine(lines[k])
              /\ (pos >= 1 /\ IsCommitLine(lines[pos])) =>
                     "layer1" \notin DOMAIN current_couple]_vars

\* a Header: line followed by two CTA: lines has committed one couple
C14_Witness ==
    /\ ppc = "done"
    /\ Len(lines) = 3
    /\ IsHeaderLine(lines[1])
    /\ IsCommitLine(lines[2]) /\ IsCommitLine(lines[3])
    /\ Len(couples) = 1
    /\ current_couple = [layer2 |-> LineText(lines[3])]

\* the positions of line where the marker word (in any case) stands before
\* a colon
MarkerAt(line, word) ==
    {j \in 1..(Len(line) - 1) : Lower(line[j]) = word /\ line[j + 1] = ":"}

\* the trimmed text that follows the first marker of the line
TextAfterMarker(line, word) ==
    LET j == CHOOSE m \in MarkerAt(line, word) :
                 \A k \in MarkerAt(line, word) : m <= k
    IN Strip(SubSeq(line, j + 2, Len(line)))

\* the cta field the step wrote: in the couple it committed, or in the
\* candidate when it committed none
CtaWritten ==
    IF Len(couples') = Len(couples) + 1
    THEN couples'[Len(couples')].layer2
    ELSE current_couple'.layer2

\* the loop step that reads a line
ReadsLine == ppc = "loop" /\ pos' = pos + 1

\* C15: the step that reads a line with a Header: marker sets the header
\* field to the trimmed text after the marker, and the step that reads a
\* CTA: line sets the cta field to the trimmed text after the CTA: marker,
\* also when another colon stands before the marker.
C15_FieldIsTextAfterMarker ==
    [][ReadsLine =>
           /\ IsHeaderLine(lines[pos']) =>
                  current_couple'.layer1
                      = TextAfterMarker(lines[pos'], "header")
           /\ IsCommitLine(lines[pos']) =>
                  CtaWritten = TextAfterMarker(lines[pos'], "cta")]_vars

\* the line carries one of the two markers
HasMarker(line) == IsHeaderLine(line) \/ IsCtaLine(line)

\* the text with every line that carries neither marker taken out
WithoutOtherLines(t) == JoinLines(SelectSeq(SplitNewline(t), HasMarker))

\* C16: the couples parsed from a text are those parsed from the text with
\* its lines that carry neither marker taken out; so putting such lines in,
\* or taking them out, anywhere in the text changes nothing.
C16_OtherLinesIgnored ==
    ppc = "done" => couples = ParseCouples(WithoutOtherLines(text))

\* a note between a Header: line and its CTA: line, and one couple parsed
C16_Witness ==
    /\ ppc = "done"
    /\ Len(lines) = 3
    /\ IsHeaderLine(lines[1])
    /\ ~HasMarker(lines[2])
    /\ IsCommitLine(lines[3])
    /\ Len(couples) = 1
    /\ WithoutOtherLines(text) # text

----------------------------------------------------------------------------
(* The under-generation warning *)

IsWarning(m) == m.kind = "warning"

\* C17: a generate action whose text parses to fewer than 10 couples shows
\* one warning that gives their number, and stores exactly the couples
\* parsed, none added; a text that gives 10 couples shows no warning.
C17_UnderGenerationWarned ==
    (clicked = "generate" /\ completion.kind = "text") =>
        \A c \in CommittedTexts :
            c.text = completion.text =>
                LET n == Min(Len(c.committed), MaxCouples)
                    warnings == SelectSeq(ui, IsWarning)
                IN /\ "couples" \in ss_keys
                   /\ ss_couples = SubSeq(c.committed, 1, n)
                   /\ n < 10 =>
                          warnings = <<Msg("warning", "only_generated", n, 0)>>
                   /\ n = 10 => warnings = <<>>

\* a text of two pairs was stored as two couples, with the warning
C17_Witness ==
    /\ clicked = "generate"
    /\ completion.kind = "text"
    /\ Len(ss_couples) = 2
    /\ \E j \in 1..Len(ui) : ui[j] = Msg("warning", "only_generated", 2, 0)

----------------------------------------------------------------------------
(* Progress of the image batch *)

IsProgressUpdate(m) == m.kind = "progress" /\ m.what = "update"

\* where in the output the progress reports, the j-th item's status line
\* and the completion summary stand
ProgressAt == {p \in DOMAIN ui : IsProgressUpdate(ui[p])}
ItemStatusAt(j) ==
    {p \in DOMAIN ui : ui[p].kind = "status" /\ ui[p].what = "generating"
                           /\ ui[p].n = j}
SummaryAt == {p \in DOMAIN ui : ui[p].kind = "status" /\ ui[p].what = "complete"}

\* C18: in a batch over K variants the progress reported after the i-th
\* item, failed or not, is i/K: there is one report per item processed, the
\* j-th report is j/K and stands after the j-th item's output and before
\* the next item's, K/K is reported only after the last item, and the
\* completion summary comes once, after all K reports.
C18_ProgressReports ==
    BatchRan =>
        LET K == Len(selected_indices)
            reports == SelectSeq(ui, IsProgressUpdate)
        IN /\ Len(reports) = i
           /\ \A j \in 1..Len(reports) :
                  /\ reports[j].n = j /\ reports[j].d = K
                  /\ reports[j].n = K => (j = K /\ Len(net) = K)
           /\ \A j \in 1..i :
                  /\ Cardinality(ItemStatusAt(j)) = 1
                  /\ \A s \in ItemStatusAt(j) :
                         Cardinality({p \in ProgressAt : p < s}) = j - 1
           /\ pc = "batch" => SummaryAt = {}
           /\ pc = "idle" =>
                  /\ Len(reports) = K
                  /\ Cardinality(SummaryAt) = 1
                  /\ \A s \in SummaryAt : \A p \in ProgressAt : p < s

\* a finished batch of two whose first item failed: reports 1/2 and 2/2
C18_Witness ==
    /\ BatchRan /\ pc = "idle"
    /\ Len(net) = 2
    /\ Failed(net[1].resp)
    /\ SelectSeq(ui, IsProgressUpdate)
           = <<Msg("progress", "update", 1, 2), Msg("progress", "update", 2, 2)>>
    /\ ui[Len(ui) - 1] = Msg("status", "complete", 0, 0)

====
